---- MODULE Spec2Model ----
(***************************************************************************)
(* A model of GraspingBenchmarksManager                                    *)
(* (grasping_benchmarks_ros/benchmark_ros_manager.py): the user_cmd        *)
(* service handler, run by one thread per client connection, and the       *)
(* synchronized camera callback, which share the fields of the manager     *)
(* without any lock.                                                       *)
(***************************************************************************)
EXTENDS Integers, Sequences, FiniteSets, TLC

(***************************************************************************)
(* Bounds of the model.                                                    *)
(***************************************************************************)
\* number of user_cmd requests served in one behaviour
MaxCmds == 3
\* number of synchronized camera arrivals in one behaviour
MaxArrivals == 1
\* longest list of candidates a planner reply carries
MaxCand == 3
\* longest list of candidates in a reply under Spec and SpecOne, where the
\* callback and several commands interleave
MaxCandConcurrent == 2
\* largest score a candidate carries (scores are 0..MaxScore)
MaxScore == 2
\* iterations of the polling loop of user_cmd (1000 in the source)
WaitBudget == 2

\* the service threads that run user_cmd concurrently
Handlers == {1, 2}

(***************************************************************************)
(* Command texts.  A text (req.cmd.data) is a sequence of symbols: the     *)
(* four command words, the blank " ", the digits, the sign "-" and "x",    *)
(* any other printable character.                                          *)
(***************************************************************************)
MAX_NUMBER_OF_CANDIDATES == 10

Digits == {"0", "1", "2", "3"}

\* available_commands_dict.keys(), each reduced to cmd_string.split()[0]
CommandWords == {"help", "grasp", "get_candidates", "abort"}

\* the texts the clients send
CmdTexts ==
    { <<"help">>, <<"grasp">>, <<"abort">>,
      <<"get_candidates", " ", "3">>,
      <<"x">>,
      <<"grasp", "x">>,
      <<"grasp", " ", "x">>,
      <<"x", "help">>,
      <<"get_candidates">>,
      <<"get_candidates", " ", "x">>,
      <<"get_candidates", " ", "0">>,
      <<"get_candidates", " ", "-", "1">> }

\* the texts sent while another command may be running
ConcurrentTexts ==
    { <<"help">>, <<"grasp">>, <<"abort">>,
      <<"get_candidates", " ", "3">>,
      <<"x">>,
      <<"grasp", "x">> }

\* word in data: substring containment
Contains(word, data) == \E i \in 1..Len(data) : data[i] = word

\* lines 139-142: valid_command
ValidCommand(data) == \E w \in CommandWords : Contains(w, data)

\* str.split(): the maximal runs of non-blank symbols, in order
RECURSIVE SplitFrom(_, _, _)
SplitFrom(data, i, cur) ==
    IF i > Len(data)
    THEN IF cur = << >> THEN << >> ELSE << cur >>
    ELSE IF data[i] = " "
         THEN IF cur = << >>
              THEN SplitFrom(data, i + 1, << >>)
              ELSE << cur >> \o SplitFrom(data, i + 1, << >>)
         ELSE SplitFrom(data, i + 1, Append(cur, data[i]))

Split(data) == SplitFrom(data, 1, << >>)

DigitVal(d) == CASE d = "0" -> 0 [] d = "1" -> 1 [] d = "2" -> 2 [] d = "3" -> 3

RECURSIVE DigitsVal(_)
DigitsVal(tok) ==
    IF tok = << >> THEN 0
    ELSE 10 * DigitsVal(SubSeq(tok, 1, Len(tok) - 1)) + DigitVal(tok[Len(tok)])

AllDigits(tok) == tok # << >> /\ \A i \in 1..Len(tok) : tok[i] \in Digits

\* int(token): does it parse, and to what
IntParses(tok) ==
    \/ AllDigits(tok)
    \/ tok # << >> /\ tok[1] = "-" /\ AllDigits(Tail(tok))

IntValue(tok) ==
    IF tok[1] = "-" THEN 0 - DigitsVal(Tail(tok)) ELSE DigitsVal(tok)

\* line 150
IsHelp(data) == data = <<"help">>

IsGrasp(data) == data = <<"grasp">>

\* line 154: the branch of the grasp / get_candidates cycle
IsCycleCmd(data) ==
    \/ IsGrasp(data)
    \/ Split(data)[1] = <<"get_candidates">> /\ Len(Split(data)) = 2

\* line 284
IsAbort(data) == data = <<"abort">>


(***************************************************************************)
(* Values.                                                                 *)
(***************************************************************************)
\* a point of a PointCloud2, in the plane: its place, whether its
\* coordinates are finite (no NaN), and its packed colour
Point(x, y, finite, rgb) == [pos |-> << x, y >>, finite |-> finite, rgb |-> rgb]

\* a field of the manager that holds no message yet (None)
NoMsg == [stream |-> "None", seq |-> 0, points |-> << >>]

\* the message of arrival n on a stream; points is empty for the images
Msg(stream, n, points) == [stream |-> stream, seq |-> n, points |-> points]

\* the 4x4 matrix of a rigid transform, in the plane: r quarter turns about
\* the origin, then the shift t
Matrix(r, t) == [r |-> r, t |-> t]

RECURSIVE Rotate(_, _)
Rotate(k, p) == IF k = 0 THEN p ELSE Rotate(k - 1, << -p[2], p[1] >>)

\* line 197: np.dot(tr_matrix, [x, y, z, 1])
Dot(M, p) ==
    LET q == Rotate(M.r, p) IN << q[1] + M.t[1], q[2] + M.t[2] >>

\* lines 210, 230, 513: np.linalg.inv of the matrix of a rigid transform
Inv(M) ==
    LET k == (4 - M.r) % 4
        q == Rotate(k, M.t)
    IN  Matrix(k, << -q[1], -q[2] >>)

\* the function without the inverse of line 513
TransformPcToFrameNoInverse(pc, target) ==
    [i \in 1..Len(pc) |-> Dot(target, pc[i])]

\* lines 512-516: the points of pc, each multiplied by the inverse of target
TransformPcToFrame(pc, target) ==
    LET target_T_r == Inv(target)
    IN  [i \in 1..Len(pc) |-> Dot(target_T_r, pc[i])]

\* TransformStamped(): empty frame id, all-zero translation and rotation
\* (a quaternion that is not unit)
EmptyTransformStamped ==
    [frame_id |-> "", translation |-> << 0, 0 >>,
     rotation |-> [unit |-> FALSE, turns |-> 0], seq |-> 0]

\* a fallback pose whose rotation is left all-zero
ZeroTransformStamped(n) == [EmptyTransformStamped EXCEPT !.seq = n]

\* lines 462-463: TransformStamped() with rotation.w = 1.0, built by the
\* callback of arrival n
IdentityTransformStamped(n) ==
    [frame_id |-> "", translation |-> << 0, 0 >>,
     rotation |-> [unit |-> TRUE, turns |-> 0], seq |-> n]

\* lines 459, 470: the transform M that tf returns to the callback of
\* arrival n, stamped with the root frame
LookedUpTransform(n, M) ==
    [frame_id |-> "panda_link0", translation |-> M.t,
     rotation |-> [unit |-> TRUE, turns |-> M.r], seq |-> n]

\* lines 188-189: the rotation of a quaternion; the all-zero quaternion
\* gives no turn
QuaternionToMatrix(rotation) == rotation.turns

\* lines 184-194: the matrix of the camera pose
TrMatrix(pose) == Matrix(QuaternionToMatrix(pose.rotation), pose.translation)

\* lines 196, 223: read_points(skip_nans=True)
ReadPoints(msg) == SelectSeq(msg.points, LAMBDA p : p.finite)

\* lines 195-203: the finite points of the cloud, each moved by tr_matrix
PointsInRoot(msg, tr_matrix) ==
    LET finite == ReadPoints(msg)
    IN  [i \in 1..Len(finite) |->
            [pos |-> Dot(tr_matrix, finite[i].pos), rgb |-> finite[i].rgb]]

\* lines 206, 230: the columns x, y, z of the points
Positions(points) == [i \in 1..Len(points) |-> points[i].pos]

\* lines 210-216: the completed points, moved to the root frame, all with
\* the colour of the first point read
CompletedPoints(np_completed_pc, tr_matrix, rgb) ==
    LET moved == TransformPcToFrame(np_completed_pc, Inv(tr_matrix))
    IN  [i \in 1..Len(moved) |->
            [pos |-> moved[i], rgb |-> rgb, part |-> "completed"]]

\* lines 221-232: the finite points of the background, moved to the root frame
BackgroundPoints(msg, tr_matrix) ==
    LET finite == ReadPoints(msg)
        moved == TransformPcToFrame(Positions(finite), Inv(tr_matrix))
    IN  [i \in 1..Len(finite) |->
            [pos |-> moved[i], rgb |-> finite[i].rgb, part |-> "background"]]

\* the cloud the shape completion returns for a partial cloud: the partial
\* cloud itself, or the partial cloud and one more point
CompletionOutput(np_partial_pc, extra) ==
    IF extra THEN Append(np_partial_pc, << 0, 0 >>) ELSE np_partial_pc

\* the clouds of the objects and of the background that the camera publishes
OneObject == << Point(1, 0, TRUE, "red") >>

\* a cloud with a point that is not finite, and one with no finite point
ObjectClouds ==
    { << Point(0, 0, FALSE, "blue"), Point(1, 0, TRUE, "red"),
         Point(0, 1, TRUE, "blue") >>,
      << Point(0, 0, FALSE, "blue") >> }

OnePlane == << Point(2, 2, TRUE, "grey") >>

PlaneClouds == { OnePlane }

\* the camera poses tf holds
OneCameraPose == Matrix(1, << 1, 0 >>)

CameraPoses == { OneCameraPose }

\* the pose of the fiducial board tf holds
BoardPose == Matrix(0, << 0, 1 >>)

\* the callback before its first arrival
NoArrival == [seq |-> 0, pc |-> NoMsg, background_pc |-> NoMsg,
              camera_found |-> FALSE, aruco_found |-> FALSE]

Scores == 0..MaxScore

\* a BenchmarkGrasp: its pose (named by the place the planner gave it) and score
Candidate(i, s) == [pose |-> i, score |-> s]

NoCandidate == [pose |-> 0, score |-> 0]

\* the lists of k candidates a planner may return
CandidateLists(k) ==
    { [i \in 1..k |-> Candidate(i, sc[i])] : sc \in [1..k -> Scores] }

Min(a, b) == IF a < b THEN a ELSE b

\* the replies of the planner to a request for n candidates: at most n of
\* them, and none when n is not positive
Replies(n) == UNION { CandidateLists(k) : k \in 0..Min(n, MaxCand) } \cup { << >> }

NoRequest == [color_image |-> NoMsg, depth_image |-> NoMsg, camera_info |-> NoMsg,
              view_point |-> EmptyTransformStamped, pc_in |-> NoMsg,
              background_pc_in |-> NoMsg, frame_id |-> "",
              cloud |-> << >>, n_of_candidates |-> 0,
              aruco_board |-> EmptyTransformStamped, grasp_filter_flag |-> FALSE]

\* a dump directory that does not exist
NoDir == [exists |-> FALSE, poses |-> << >>, scores |-> << >>]

DirIndices == 0..MaxCmds

(***************************************************************************)
(* State.                                                                  *)
(***************************************************************************)
VARIABLES
    \* fields of the manager (lines 100-115)
    use_aruco, cam_info_msg, rgb_msg, depth_msg, pc_msg, background_pc_msg,
    camera_pose, aruco_board_pose, enable_grasp_filter, new_camera_data, abort,
    \* the dump directories /workspace/dump_<i>
    fs,
    \* the camera callback: its position and the arrival it is handling
    cb_pc, cb_arrival, narrivals,
    \* each service thread: position in user_cmd, req.cmd.data, the locals
    pc, cmd, count, planner_req, np_partial_pc, reply, feas_res, best_candidate,
    dump_dir_idx, result, ncmds,
    \* what a thread did since it received its command
    n_completion, n_planner, n_exec, dumped, failed, abort_before_check,
    abort_after_reply,
    \* the abort flag as the command found it on arrival and at its abort check
    abort_at_entry, abort_at_check,
    \* what the execution service answered to the command
    exec_reply

manager_vars == << use_aruco, cam_info_msg, rgb_msg, depth_msg, pc_msg,
                   background_pc_msg, camera_pose, aruco_board_pose,
                   enable_grasp_filter, new_camera_data, abort >>

snapshot_vars == << cam_info_msg, rgb_msg, depth_msg, pc_msg, background_pc_msg,
                    camera_pose, aruco_board_pose, enable_grasp_filter >>

cb_vars == << cb_pc, cb_arrival, narrivals >>

local_vars == << pc, cmd, count, planner_req, np_partial_pc, reply, feas_res,
                 best_candidate, dump_dir_idx, result, ncmds >>

history_vars == << n_completion, n_planner, n_exec, dumped, failed,
                   abort_before_check, abort_after_reply, abort_at_entry,
                   abort_at_check, exec_reply >>

vars == << manager_vars, fs, cb_vars, local_vars, history_vars >>

\* lines 100-115, with use_aruco the constructor's argument
Init ==
    /\ use_aruco \in BOOLEAN
    /\ cam_info_msg = NoMsg
    /\ rgb_msg = NoMsg
    /\ depth_msg = NoMsg
    /\ pc_msg = NoMsg
    /\ background_pc_msg = NoMsg
    /\ camera_pose = EmptyTransformStamped
    /\ aruco_board_pose = EmptyTransformStamped
    /\ enable_grasp_filter = FALSE
    /\ new_camera_data = FALSE
    /\ abort = FALSE
    /\ fs = [i \in DirIndices |-> NoDir]
    /\ cb_pc = "idle"
    /\ cb_arrival = NoArrival
    /\ narrivals = 0
    /\ pc = [h \in Handlers |-> "idle"]
    /\ cmd = [h \in Handlers |-> << >>]
    /\ count = [h \in Handlers |-> 0]
    /\ planner_req = [h \in Handlers |-> NoRequest]
    /\ np_partial_pc = [h \in Handlers |-> << >>]
    /\ reply = [h \in Handlers |-> << >>]
    /\ feas_res = [h \in Handlers |-> << >>]
    /\ best_candidate = [h \in Handlers |-> NoCandidate]
    /\ dump_dir_idx = [h \in Handlers |-> 0]
    /\ result = [h \in Handlers |-> "none"]
    /\ ncmds = 0
    /\ n_completion = [h \in Handlers |-> 0]
    /\ n_planner = [h \in Handlers |-> 0]
    /\ n_exec = [h \in Handlers |-> 0]
    /\ dumped = [h \in Handlers |-> -1]
    /\ failed = [h \in Handlers |-> "none"]
    /\ abort_before_check = [h \in Handlers |-> FALSE]
    /\ abort_after_reply = [h \in Handlers |-> FALSE]
    /\ abort_at_entry = [h \in Handlers |-> FALSE]
    /\ abort_at_check = [h \in Handlers |-> "none"]
    /\ exec_reply = [h \in Handlers |-> "none"]


(***************************************************************************)
(* The camera callback (_camera_data_callback), one synchronized arrival   *)
(* at a time: the synchronizer calls it under its own lock.                *)
(***************************************************************************)
\* the callback that stores the background whatever the cloud is
StoredBackgroundAlways(pc_in, background_pc_in) == background_pc_in

\* lines 450-453: the background is kept only when it differs from the cloud
StoredBackground(pc_in, background_pc_in) ==
    IF pc_in # background_pc_in THEN background_pc_in ELSE NoMsg

\* lines 446-453: the five messages of arrival n, of which the images and
\* the camera info are named by n alone
CbMessages(pc_in, background_pc_in) ==
    /\ cb_pc = "idle"
    /\ narrivals < MaxArrivals
    /\ narrivals' = narrivals + 1
    /\ cb_arrival' = [seq |-> narrivals + 1, pc |-> pc_in,
                      background_pc |-> background_pc_in,
                      camera_found |-> FALSE, aruco_found |-> FALSE]
    /\ cam_info_msg' = Msg("camera_info", narrivals + 1, << >>)
    /\ rgb_msg' = Msg("color", narrivals + 1, << >>)
    /\ depth_msg' = Msg("depth", narrivals + 1, << >>)
    /\ pc_msg' = pc_in
    /\ background_pc_msg' = StoredBackground(pc_in, background_pc_in)
    /\ cb_pc' = "flag"
    /\ UNCHANGED << use_aruco, camera_pose, aruco_board_pose,
                    enable_grasp_filter, new_camera_data, abort, fs,
                    local_vars, history_vars >>

\* line 455
CbFlag ==
    /\ cb_pc = "flag"
    /\ new_camera_data' = TRUE
    /\ cb_pc' = "camera_pose"
    /\ UNCHANGED << use_aruco, cam_info_msg, rgb_msg, depth_msg, pc_msg,
                    background_pc_msg, camera_pose, aruco_board_pose,
                    enable_grasp_filter, abort, fs, cb_arrival, narrivals,
                    local_vars, history_vars >>

\* lines 458-463: found: the lookup returned M, else it raised one of the
\* three exceptions that are caught
CbCameraPose(found, M) ==
    /\ cb_pc = "camera_pose"
    /\ camera_pose' = IF found THEN LookedUpTransform(cb_arrival.seq, M)
                               ELSE IdentityTransformStamped(cb_arrival.seq)
    /\ cb_arrival' = [cb_arrival EXCEPT !.camera_found = found]
    /\ cb_pc' = IF use_aruco THEN "aruco" ELSE "idle"
    /\ UNCHANGED << use_aruco, cam_info_msg, rgb_msg, depth_msg, pc_msg,
                    background_pc_msg, aruco_board_pose, enable_grasp_filter,
                    new_camera_data, abort, fs, narrivals, local_vars,
                    history_vars >>

\* lines 468-475
CbAruco(found) ==
    /\ cb_pc = "aruco"
    /\ IF found
       THEN /\ aruco_board_pose' = LookedUpTransform(cb_arrival.seq, BoardPose)
            /\ enable_grasp_filter' = TRUE
       ELSE /\ aruco_board_pose' = aruco_board_pose
            /\ enable_grasp_filter' = FALSE
    /\ cb_arrival' = [cb_arrival EXCEPT !.aruco_found = found]
    /\ cb_pc' = "idle"
    /\ UNCHANGED << use_aruco, cam_info_msg, rgb_msg, depth_msg, pc_msg,
                    background_pc_msg, camera_pose, new_camera_data, abort, fs,
                    narrivals, local_vars, history_vars >>

(***************************************************************************)
(* user_cmd, as run by service thread h.  result[h] is what the last call  *)
(* ended with: "True" and "False" are Bool(True) and Bool(False), "None"   *)
(* is a return without a value, "exc" an exception that left user_cmd.     *)
(***************************************************************************)
\* a command that leaves the abort flag as it finds it
AbortKept(flag) == flag

\* line 148: the abort flag once a valid command has arrived
AbortAtEntry(flag) == FALSE

\* lines 128-154 and 284: the command arrives; every local starts afresh
UserCmdEntry(h, data) ==
    /\ pc[h] = "idle"
    /\ ncmds < MaxCmds
    /\ ncmds' = ncmds + 1
    /\ cmd' = [cmd EXCEPT ![h] = data]
    /\ count' = [count EXCEPT ![h] = 0]
    /\ planner_req' = [planner_req EXCEPT ![h] = NoRequest]
    /\ np_partial_pc' = [np_partial_pc EXCEPT ![h] = << >>]
    /\ reply' = [reply EXCEPT ![h] = << >>]
    /\ feas_res' = [feas_res EXCEPT ![h] = << >>]
    /\ best_candidate' = [best_candidate EXCEPT ![h] = NoCandidate]
    /\ dump_dir_idx' = [dump_dir_idx EXCEPT ![h] = 0]
    /\ n_completion' = [n_completion EXCEPT ![h] = 0]
    /\ n_planner' = [n_planner EXCEPT ![h] = 0]
    /\ n_exec' = [n_exec EXCEPT ![h] = 0]
    /\ dumped' = [dumped EXCEPT ![h] = -1]
    /\ failed' = [failed EXCEPT ![h] = "none"]
    /\ abort_before_check' = [abort_before_check EXCEPT ![h] = FALSE]
    /\ abort_after_reply' = [abort_after_reply EXCEPT ![h] = FALSE]
    /\ abort_at_entry' = [abort_at_entry EXCEPT ![h] = abort]
    /\ abort_at_check' = [abort_at_check EXCEPT ![h] = "none"]
    /\ exec_reply' = [exec_reply EXCEPT ![h] = "none"]
    /\ IF ~ValidCommand(data)
       THEN \* lines 143-146
            /\ abort' = abort
            /\ pc' = pc
            /\ result' = [result EXCEPT ![h] = "False"]
       ELSE \* line 148
            /\ abort' = AbortAtEntry(abort)
            /\ IF IsHelp(data)
               THEN /\ pc' = pc
                    /\ result' = [result EXCEPT ![h] = "True"]
               ELSE IF IsCycleCmd(data)
               THEN /\ pc' = [pc EXCEPT ![h] = "wait"]
                    /\ result' = [result EXCEPT ![h] = "none"]
               ELSE IF IsAbort(data)
               THEN /\ pc' = [pc EXCEPT ![h] = "set_abort"]
                    /\ result' = [result EXCEPT ![h] = "none"]
               ELSE \* no branch of the if/elif chain is taken
                    /\ pc' = pc
                    /\ result' = [result EXCEPT ![h] = "None"]
    /\ UNCHANGED << use_aruco, snapshot_vars, new_camera_data, fs, cb_vars >>

\* the pcs of a cycle that has not yet run its abort check (lines 154-261)
BeforeCheck == {"wait", "consume", "read", "complete", "compose", "plan",
                "abort_check"}

\* the pcs between the planner's reply and the selection (lines 259-275)
AfterReply == {"abort_check", "feasibility"}

\* lines 285-286
SetAbort(h) ==
    /\ pc[h] = "set_abort"
    /\ abort' = TRUE
    /\ pc' = [pc EXCEPT ![h] = "idle"]
    /\ result' = [result EXCEPT ![h] = "True"]
    /\ abort_before_check' =
           [g \in Handlers |-> abort_before_check[g] \/ pc[g] \in BeforeCheck]
    /\ abort_after_reply' =
           [g \in Handlers |->
               abort_after_reply[g] \/ (pc[g] \in AfterReply /\ IsGrasp(cmd[g]))]
    /\ UNCHANGED << use_aruco, snapshot_vars, new_camera_data, fs, cb_vars,
                    cmd, count, planner_req, np_partial_pc, reply, feas_res,
                    best_candidate, dump_dir_idx, ncmds, n_completion,
                    n_planner, n_exec, dumped, failed, abort_at_entry, exec_reply,
                    abort_at_check >>

\* lines 160-166: one test of the loop condition, then the body or the exit;
\* count is not read after line 164, and is dropped once the wait is passed
WaitPoll(h) ==
    /\ pc[h] = "wait"
    /\ IF ~new_camera_data /\ count[h] < WaitBudget
       THEN /\ count' = [count EXCEPT ![h] = count[h] + 1]
            /\ UNCHANGED << pc, result >>
       ELSE IF count[h] >= WaitBudget
            THEN /\ count' = count
                 /\ pc' = [pc EXCEPT ![h] = "idle"]
                 /\ result' = [result EXCEPT ![h] = "False"]
            ELSE /\ count' = [count EXCEPT ![h] = 0]
                 /\ pc' = [pc EXCEPT ![h] = "consume"]
                 /\ result' = result
    /\ UNCHANGED << manager_vars, fs, cb_vars, cmd, planner_req, np_partial_pc,
                    reply, feas_res, best_candidate, dump_dir_idx, ncmds,
                    history_vars >>

\* line 168
Consume(h) ==
    /\ pc[h] = "consume"
    /\ new_camera_data' = FALSE
    /\ pc' = [pc EXCEPT ![h] = "read"]
    /\ UNCHANGED << use_aruco, snapshot_vars, abort, fs, cb_vars, cmd, count,
                    planner_req, np_partial_pc, reply, feas_res,
                    best_candidate, dump_dir_idx, result, ncmds,
                    history_vars >>

\* lines 171-194: the request takes the stored messages and the camera
\* pose; accepted: quaternion_to_matrix takes a quaternion that is not unit
\* for no rotation, else it raises
ReadSnapshot(h, accepted) ==
    /\ pc[h] = "read"
    /\ planner_req' = [planner_req EXCEPT ![h] =
           [@ EXCEPT !.color_image = rgb_msg,
                     !.depth_image = depth_msg,
                     !.camera_info = cam_info_msg,
                     !.view_point = camera_pose,
                     !.pc_in = pc_msg,
                     !.background_pc_in = background_pc_msg]]
    /\ IF camera_pose.rotation.unit \/ accepted
       THEN /\ pc' = [pc EXCEPT ![h] = "complete"]
            /\ result' = result
       ELSE /\ pc' = [pc EXCEPT ![h] = "idle"]
            /\ result' = [result EXCEPT ![h] = "exc"]
    /\ UNCHANGED << manager_vars, fs, cb_vars, cmd, count, np_partial_pc,
                    reply, feas_res, best_candidate, dump_dir_idx, ncmds,
                    history_vars >>

\* lines 195-232: the cloud of the request.  An empty array of points has
\* no columns to take (IndexError, lines 206 and 230), and
\* complete_point_cloud is called bare: what it raises leaves user_cmd.
\* ok: the completion returned; extra: it returned one more point
Complete(h, ok, extra) ==
    /\ pc[h] = "complete"
    /\ LET tr_matrix == TrMatrix(planner_req[h].view_point)
           points == PointsInRoot(planner_req[h].pc_in, tr_matrix)
           partial == TransformPcToFrame(Positions(points), tr_matrix)
           background_pc_in == planner_req[h].background_pc_in
       IN  IF points = << >>
           THEN /\ pc' = [pc EXCEPT ![h] = "idle"]
                /\ result' = [result EXCEPT ![h] = "exc"]
                /\ UNCHANGED << planner_req, np_partial_pc, n_completion,
                                failed >>
           ELSE /\ np_partial_pc' = [np_partial_pc EXCEPT ![h] = partial]
                /\ n_completion' = [n_completion EXCEPT ![h] = n_completion[h] + 1]
                /\ IF ~ok
                   THEN /\ pc' = [pc EXCEPT ![h] = "idle"]
                        /\ result' = [result EXCEPT ![h] = "exc"]
                        /\ failed' = [failed EXCEPT ![h] = "completion"]
                        /\ planner_req' = planner_req
                   ELSE IF background_pc_in # NoMsg
                           /\ ReadPoints(background_pc_in) = << >>
                   THEN /\ pc' = [pc EXCEPT ![h] = "idle"]
                        /\ result' = [result EXCEPT ![h] = "exc"]
                        /\ UNCHANGED << planner_req, failed >>
                   ELSE /\ planner_req' = [planner_req EXCEPT ![h].cloud =
                               CompletedPoints(CompletionOutput(partial, extra),
                                               tr_matrix, points[1].rgb)
                               \o (IF background_pc_in # NoMsg
                                   THEN BackgroundPoints(background_pc_in, tr_matrix)
                                   ELSE << >>)]
                        /\ pc' = [pc EXCEPT ![h] = "compose"]
                        /\ UNCHANGED << result, failed >>
    /\ UNCHANGED << manager_vars, fs, cb_vars, cmd, count, reply, feas_res,
                    best_candidate, dump_dir_idx, ncmds, n_planner, n_exec,
                    dumped, abort_before_check, abort_after_reply,
                    abort_at_entry, exec_reply, abort_at_check >>

\* line 241: the text of the count, the second word of the command
CountToken(data) == Split(data)[2]

\* line 241
NOfCandidates(data) ==
    IF IsGrasp(data) THEN MAX_NUMBER_OF_CANDIDATES ELSE IntValue(CountToken(data))

\* lines 234-247: the header, the count (int() raises ValueError), the board
Compose(h) ==
    /\ pc[h] = "compose"
    /\ IF IsGrasp(cmd[h]) \/ IntParses(CountToken(cmd[h]))
       THEN /\ planner_req' = [planner_req EXCEPT ![h] =
                   [@ EXCEPT !.frame_id = camera_pose.frame_id,
                             !.n_of_candidates = NOfCandidates(cmd[h]),
                             !.aruco_board = IF use_aruco THEN aruco_board_pose
                                             ELSE @,
                             !.grasp_filter_flag = IF use_aruco
                                                   THEN enable_grasp_filter
                                                   ELSE @]]
            /\ pc' = [pc EXCEPT ![h] = "plan"]
            /\ result' = result
       ELSE /\ planner_req' = [planner_req EXCEPT ![h] =
                   [@ EXCEPT !.frame_id = camera_pose.frame_id]]
            /\ pc' = [pc EXCEPT ![h] = "idle"]
            /\ result' = [result EXCEPT ![h] = "exc"]
    /\ UNCHANGED << manager_vars, fs, cb_vars, cmd, count, np_partial_pc,
                    reply, feas_res, best_candidate, dump_dir_idx, ncmds,
                    history_vars >>

\* lines 249-258: the planner replies, or the call raises ServiceException
Plan(h, ok, r) ==
    /\ pc[h] = "plan"
    /\ n_planner' = [n_planner EXCEPT ![h] = n_planner[h] + 1]
    /\ IF ok
       THEN /\ reply' = [reply EXCEPT ![h] = r]
            /\ pc' = [pc EXCEPT ![h] = "abort_check"]
            /\ UNCHANGED << result, failed >>
       ELSE /\ reply' = reply
            /\ pc' = [pc EXCEPT ![h] = "idle"]
            /\ result' = [result EXCEPT ![h] = "False"]
            /\ failed' = [failed EXCEPT ![h] = "planner"]
    /\ UNCHANGED << manager_vars, fs, cb_vars, cmd, count, planner_req,
                    np_partial_pc, feas_res, best_candidate, dump_dir_idx,
                    ncmds, n_completion, n_exec, dumped, abort_before_check,
                    abort_after_reply, abort_at_entry, exec_reply, abort_at_check >>


(***************************************************************************)
(* Selection and dump, as the code computes them.                          *)
(***************************************************************************)
\* a verdict that does not read the reply
TestGraspFeasibilityAlways(success) == TRUE

\* line 416: the verdict of one plan-only reply
TestGraspFeasibility(success) == success

\* lines 386-393: the candidates whose query answered success, in order
RECURSIVE GetFeasibleGrasps(_, _)
GetFeasibleGrasps(grasps, res) ==
    IF grasps = << >> \/ res = << >> THEN << >>
    ELSE IF TestGraspFeasibility(Head(res) = "yes")
         THEN << Head(grasps) >> \o GetFeasibleGrasps(Tail(grasps), Tail(res))
         ELSE GetFeasibleGrasps(Tail(grasps), Tail(res))

\* the comparison of line 304 with >= for >
BetterOrEqual(grasp, best) == grasp.score >= best.score

\* line 304
Better(grasp, best) == grasp.score > best.score

\* lines 301-307: the loop over grasps[1:], best so far in hand
RECURSIVE BestFrom(_, _)
BestFrom(best, rest) ==
    IF rest = << >> THEN best
    ELSE BestFrom(IF Better(Head(rest), best) THEN Head(rest) ELSE best, Tail(rest))

GetBestGrasp(grasps) == BestFrom(Head(grasps), Tail(grasps))

\* the rows of lines 353-365 with the test of line 355 never false
PoseRowsNoNewline(candidate) ==
    [r \in 1..4 |-> [pose |-> candidate.pose, row |-> r - 1, end |-> ","]]

\* lines 353-365: the four rows of the affine matrix of one pose; the last
\* row ends the line, the others end with a comma
PoseRows(candidate) ==
    [r \in 1..4 |-> [pose |-> candidate.pose, row |-> r - 1,
                     end |-> IF r # 4 THEN "," ELSE "\n"]]

\* lines 341-365: what is written to grasp_candidates.txt
RECURSIVE PosesFile(_)
PosesFile(grasps) ==
    IF grasps = << >> THEN << >>
    ELSE PoseRows(Head(grasps)) \o PosesFile(Tail(grasps))

\* lines 367-368: what is written to grasp_candidates_scores.txt
ScoresFile(grasps) ==
    [i \in 1..Len(grasps) |-> [score |-> grasps[i].score, end |-> "\n"]]

\* a check that never sees the flag
AbortNeverRequested(flag) == FALSE

\* line 261: the test of the abort flag
AbortRequested(flag) == flag

\* lines 260-282: the abort check, then the branch on the command; an empty
\* list of candidates has no feasible one (lines 270-273)
AbortCheck(h) ==
    /\ pc[h] = "abort_check"
    /\ abort_at_check' = [abort_at_check EXCEPT ![h] =
                             IF abort THEN "True" ELSE "False"]
    /\ IF AbortRequested(abort)
       THEN /\ pc' = [pc EXCEPT ![h] = "idle"]
            /\ result' = [result EXCEPT ![h] = "False"]
       ELSE IF IsGrasp(cmd[h])
            THEN IF reply[h] = << >>
                 THEN /\ pc' = [pc EXCEPT ![h] = "idle"]
                      /\ result' = [result EXCEPT ![h] = "False"]
                 ELSE /\ pc' = [pc EXCEPT ![h] = "feasibility"]
                      /\ result' = result
            ELSE /\ pc' = [pc EXCEPT ![h] = "dump_scan"]
                 /\ result' = result
    /\ UNCHANGED << manager_vars, fs, cb_vars, cmd, count, planner_req,
                    np_partial_pc, reply, feas_res, best_candidate,
                    dump_dir_idx, ncmds, n_completion, n_planner, n_exec,
                    dumped, failed, abort_before_check, abort_after_reply,
                    abort_at_entry, exec_reply >>

\* lines 387-391 and 410-416, then 269-275 after the last candidate: one
\* plan-only query; answer is "yes", "no", or "err" when the call raises
Feasibility(h, answer) ==
    /\ pc[h] = "feasibility"
    /\ feas_res' = [feas_res EXCEPT ![h] = Append(@, answer)]
    /\ IF answer = "err"
       THEN /\ pc' = [pc EXCEPT ![h] = "idle"]
            /\ result' = [result EXCEPT ![h] = "exc"]
            /\ failed' = [failed EXCEPT ![h] = "feasibility"]
            /\ UNCHANGED best_candidate
       ELSE /\ failed' = failed
            /\ IF Len(feas_res'[h]) < Len(reply[h])
               THEN UNCHANGED << pc, result, best_candidate >>
               ELSE IF Len(GetFeasibleGrasps(reply[h], feas_res'[h])) = 0
                    THEN /\ pc' = [pc EXCEPT ![h] = "idle"]
                         /\ result' = [result EXCEPT ![h] = "False"]
                         /\ UNCHANGED best_candidate
                    ELSE /\ pc' = [pc EXCEPT ![h] = "execute"]
                         /\ best_candidate' = [best_candidate EXCEPT ![h] =
                                GetBestGrasp(GetFeasibleGrasps(reply[h], feas_res'[h]))]
                         /\ result' = result
    /\ UNCHANGED << manager_vars, fs, cb_vars, cmd, count, planner_req,
                    np_partial_pc, reply, dump_dir_idx, ncmds, n_completion,
                    n_planner, n_exec, dumped, abort_before_check,
                    abort_after_reply, abort_at_entry, exec_reply, abort_at_check >>

\* an execute_grasp that returns what the reply reports
ExecuteResultOfReply(ok, success) == ok /\ success

\* lines 431-439: Bool(True) once the call has returned, whatever the
\* success of the reply; Bool(False) when it raised ServiceException
ExecuteResult(ok, success) == ok

\* lines 425-439: the request without plan_only.  ok: the call returned, and
\* success is what its reply reports; else it raised ServiceException
ExecuteGrasp(h, ok, success) ==
    /\ pc[h] = "execute"
    /\ n_exec' = [n_exec EXCEPT ![h] = n_exec[h] + 1]
    /\ pc' = [pc EXCEPT ![h] = "idle"]
    /\ exec_reply' = [exec_reply EXCEPT ![h] =
                         IF ~ok THEN "error"
                         ELSE IF success THEN "success" ELSE "failure"]
    /\ result' = [result EXCEPT ![h] =
                     IF ExecuteResult(ok, success) THEN "True" ELSE "False"]
    /\ failed' = IF ok THEN failed ELSE [failed EXCEPT ![h] = "execution"]
    /\ UNCHANGED << manager_vars, fs, cb_vars, cmd, count, planner_req,
                    np_partial_pc, reply, feas_res, best_candidate, dump_dir_idx,
                    ncmds, n_completion, n_planner, dumped, abort_before_check,
                    abort_after_reply, abort_at_entry, abort_at_check >>

\* lines 330-333: one test of os.path.exists
DumpScan(h) ==
    /\ pc[h] = "dump_scan"
    /\ IF fs[dump_dir_idx[h]].exists
       THEN /\ dump_dir_idx' = [dump_dir_idx EXCEPT ![h] = @ + 1]
            /\ pc' = pc
       ELSE /\ dump_dir_idx' = dump_dir_idx
            /\ pc' = [pc EXCEPT ![h] = "dump_mkdir"]
    /\ UNCHANGED << manager_vars, fs, cb_vars, cmd, count, planner_req,
                    np_partial_pc, reply, feas_res, best_candidate, result,
                    ncmds, history_vars >>

\* line 334: os.mkdir raises FileExistsError on a directory that exists
DumpMkdir(h) ==
    /\ pc[h] = "dump_mkdir"
    /\ IF fs[dump_dir_idx[h]].exists
       THEN /\ fs' = fs
            /\ pc' = [pc EXCEPT ![h] = "idle"]
            /\ result' = [result EXCEPT ![h] = "exc"]
       ELSE /\ fs' = [fs EXCEPT ![dump_dir_idx[h]].exists = TRUE]
            /\ pc' = [pc EXCEPT ![h] = "dump_write"]
            /\ result' = result
    /\ UNCHANGED << manager_vars, cb_vars, cmd, count, planner_req,
                    np_partial_pc, reply, feas_res, best_candidate,
                    dump_dir_idx, ncmds, history_vars >>

\* lines 339-370
DumpWrite(h) ==
    /\ pc[h] = "dump_write"
    /\ fs' = [fs EXCEPT ![dump_dir_idx[h]] =
                 [exists |-> TRUE, poses |-> PosesFile(reply[h]),
                  scores |-> ScoresFile(reply[h])]]
    /\ dumped' = [dumped EXCEPT ![h] = dump_dir_idx[h]]
    /\ pc' = [pc EXCEPT ![h] = "idle"]
    /\ result' = [result EXCEPT ![h] = "True"]
    /\ UNCHANGED << manager_vars, cb_vars, cmd, count, planner_req,
                    np_partial_pc, reply, feas_res, best_candidate,
                    dump_dir_idx, ncmds, n_completion, n_planner, n_exec,
                    failed, abort_before_check, abort_after_reply,
                    abort_at_entry, exec_reply, abort_at_check >>

(***************************************************************************)
(* The specifications.                                                     *)
(***************************************************************************)
\* one step of the camera callback, with the clouds of the objects drawn
\* from clouds, those of the background from planes (or the background is
\* the cloud of the objects itself), and the camera poses from poses
CallbackStep(clouds, planes, poses) ==
    \/ \E points \in clouds :
           LET pc_in == Msg("cloud", narrivals + 1, points)
           IN  \E background_pc_in \in
                      {pc_in} \cup { Msg("background", narrivals + 1, b) : b \in planes } :
                   CbMessages(pc_in, background_pc_in)
    \/ CbFlag
    \/ \E found \in BOOLEAN, M \in poses : CbCameraPose(found, M)
    \/ \E found \in BOOLEAN : CbAruco(found)

\* one step of a service thread of H, with commands drawn from texts, those
\* of the grasp / get_candidates cycle sent to the threads of C only, and
\* planner replies of at most maxk candidates
HandlerStep(H, C, texts, maxk, extras) ==
    \/ \E h \in H, data \in texts :
           /\ (ValidCommand(data) /\ IsCycleCmd(data)) => h \in C
           /\ UserCmdEntry(h, data)
    \/ \E h \in H : SetAbort(h)
    \/ \E h \in H : WaitPoll(h)
    \/ \E h \in H : Consume(h)
    \/ \E h \in H, accepted \in BOOLEAN : ReadSnapshot(h, accepted)
    \/ \E h \in H, ok \in BOOLEAN, extra \in extras : Complete(h, ok, extra)
    \/ \E h \in H : Compose(h)
    \/ \E h \in H :
           /\ pc[h] = "plan"
           /\ \E r \in Replies(Min(planner_req[h].n_of_candidates, maxk)) :
                  Plan(h, TRUE, r)
    \/ \E h \in H : Plan(h, FALSE, << >>)
    \/ \E h \in H : AbortCheck(h)
    \/ \E h \in H, answer \in {"yes", "no", "err"} : Feasibility(h, answer)
    \/ \E h \in H, ok \in BOOLEAN, success \in BOOLEAN : ExecuteGrasp(h, ok, success)
    \/ \E h \in H : DumpScan(h)
    \/ \E h \in H : DumpMkdir(h)
    \/ \E h \in H : DumpWrite(h)

\* two service threads and the callback, all running concurrently; the
\* clients keep one cycle in flight at a time: thread 1 serves the cycles,
\* thread 2 the commands sent while a cycle runs
Next ==
    \/ CallbackStep({OneObject}, {OnePlane}, {OneCameraPose})
    \/ HandlerStep(Handlers, {1}, ConcurrentTexts, MaxCandConcurrent, {FALSE})

Spec == Init /\ [][Next]_vars

\* one service thread and the callback: commands are served one after another
NextOne ==
    \/ CallbackStep({OneObject}, {OnePlane}, {OneCameraPose})
    \/ HandlerStep({1}, {1}, CmdTexts, MaxCandConcurrent, {FALSE})

SpecOne == Init /\ [][NextOne]_vars

\* the manager once the callback has handled its first arrival and returned,
\* the cloud of the objects being one of clouds and the camera pose that tf
\* holds one of poses
Ready(clouds, poses) ==
    /\ use_aruco \in BOOLEAN
    /\ cam_info_msg = Msg("camera_info", 1, << >>)
    /\ rgb_msg = Msg("color", 1, << >>)
    /\ depth_msg = Msg("depth", 1, << >>)
    /\ pc_msg \in { Msg("cloud", 1, points) : points \in clouds }
    /\ background_pc_msg \in {Msg("background", 1, OnePlane), NoMsg}
    /\ camera_pose \in { LookedUpTransform(1, M) : M \in poses }
                       \cup { IdentityTransformStamped(1) }
    /\ \E found \in BOOLEAN :
           /\ enable_grasp_filter = (use_aruco /\ found)
           /\ aruco_board_pose = IF use_aruco /\ found
                                 THEN LookedUpTransform(1, BoardPose)
                                 ELSE EmptyTransformStamped
    /\ new_camera_data = TRUE
    /\ abort = FALSE
    /\ fs = [i \in DirIndices |-> NoDir]
    /\ cb_pc = "idle"
    /\ cb_arrival = [seq |-> 1, pc |-> pc_msg,
                     background_pc |-> IF background_pc_msg = NoMsg THEN pc_msg
                                       ELSE background_pc_msg,
                     camera_found |-> camera_pose.frame_id = "panda_link0",
                     aruco_found |-> enable_grasp_filter]
    /\ narrivals = 1
    /\ pc = [h \in Handlers |-> "idle"]
    /\ cmd = [h \in Handlers |-> << >>]
    /\ count = [h \in Handlers |-> 0]
    /\ planner_req = [h \in Handlers |-> NoRequest]
    /\ np_partial_pc = [h \in Handlers |-> << >>]
    /\ reply = [h \in Handlers |-> << >>]
    /\ feas_res = [h \in Handlers |-> << >>]
    /\ best_candidate = [h \in Handlers |-> NoCandidate]
    /\ dump_dir_idx = [h \in Handlers |-> 0]
    /\ result = [h \in Handlers |-> "none"]
    /\ ncmds = 0
    /\ n_completion = [h \in Handlers |-> 0]
    /\ n_planner = [h \in Handlers |-> 0]
    /\ n_exec = [h \in Handlers |-> 0]
    /\ dumped = [h \in Handlers |-> -1]
    /\ failed = [h \in Handlers |-> "none"]
    /\ abort_before_check = [h \in Handlers |-> FALSE]
    /\ abort_after_reply = [h \in Handlers |-> FALSE]
    /\ abort_at_entry = [h \in Handlers |-> FALSE]
    /\ abort_at_check = [h \in Handlers |-> "none"]
    /\ exec_reply = [h \in Handlers |-> "none"]

InitReady == Ready({OneObject}, {OneCameraPose})

\* the three commands that matter to a cycle and its abort
CycleTexts == {<<"grasp">>, <<"get_candidates", " ", "3">>, <<"abort">>}

\* two service threads on a ready snapshot: thread 1 serves the commands of
\* CycleTexts, thread 2 the aborts sent meanwhile; replies hold up to two candidates
NextAbort == HandlerStep(Handlers, {1}, CycleTexts, 2, {FALSE})

SpecAbort == InitReady /\ [][NextAbort]_vars

\* one service thread that serves grasp and get_candidates on a ready
\* snapshot, with the longest replies
NextCycle ==
    HandlerStep({1}, {1}, CycleTexts, MaxCand, {FALSE})

SpecCycle == InitReady /\ [][NextCycle]_vars

\* two service threads on a ready snapshot, each serving any command of
\* CycleTexts: two cycles may run at once; replies hold one candidate
NextTwo == HandlerStep(Handlers, Handlers, CycleTexts, 1, {FALSE})

SpecTwo == InitReady /\ [][NextTwo]_vars

\* the rigid transforms of the plane with a shift of Shifts
Shifts == { << 0, 0 >>, << 1, 0 >>, << -1, 2 >> }

RigidTransforms == { Matrix(r, t) : r \in 0..3, t \in Shifts }

\* clouds of one, two and three points
PointClouds ==
    { OneObject,
      << Point(1, 0, TRUE, "red"), Point(0, 0, FALSE, "blue"),
         Point(-2, 1, TRUE, "blue") >>,
      << Point(0, 0, TRUE, "red"), Point(1, 1, TRUE, "red"),
         Point(0, -1, TRUE, "blue") >> }

\* one service thread on a ready snapshot whose cloud is any of PointClouds
\* and whose camera pose is any of RigidTransforms
InitTransform == Ready(PointClouds, RigidTransforms)

NextTransform == HandlerStep({1}, {1}, CycleTexts, 1, {TRUE})

SpecTransform == InitTransform /\ [][NextTransform]_vars

\* one service thread and the callback, with the clouds of ObjectClouds and
\* a completion that returns one point more than it was given
NextSensor ==
    \/ CallbackStep(ObjectClouds, PlaneClouds, CameraPoses)
    \/ HandlerStep({1}, {1}, CycleTexts, 1, {TRUE})

SpecSensor == Init /\ [][NextSensor]_vars


(***************************************************************************)
(* Claims.                                                                 *)
(***************************************************************************)
\* the answers so far say no candidate of h is feasible
AllInfeasible(h) ==
    /\ Len(feas_res[h]) = Len(reply[h])
    /\ \A i \in 1..Len(feas_res[h]) : feas_res[h][i] = "no"

\* the places of the candidates of h whose query answered success
FeasiblePlaces(h) == { i \in 1..Len(feas_res[h]) : feas_res[h][i] = "yes" }

\* the planner replied to h and no collaborator failed: the cycle got to
\* its abort check and what it returned was decided from there on
ReturnedPastReply(h) ==
    pc[h] = "idle" /\ n_planner[h] = 1 /\ failed[h] = "none" /\ result[h] # "none"

\* the pcs after the abort check
PastCheck == {"feasibility", "execute", "dump_scan", "dump_mkdir", "dump_write"}

\* C1: a grasp command that was aborted between the planner's reply and
\* the selection of the best candidate returns failure and never calls the
\* execution service.
CE_C1 ==
    \A h \in Handlers :
        abort_after_reply[h] =>
            /\ pc[h] # "execute"
            /\ n_exec[h] = 0
            /\ ReturnedPastReply(h) => result[h] = "False"

\* C2: once abort was issued to a cycle in flight that has not run its
\* abort check, the flag is set when the cycle is at the check, and the
\* cycle returns failure without a feasibility query, an execution call
\* or a dump.
CE_C2 ==
    \A h \in Handlers :
        abort_before_check[h] =>
            /\ pc[h] = "abort_check" => abort
            /\ pc[h] \notin PastCheck
            /\ Len(feas_res[h]) = 0 /\ n_exec[h] = 0 /\ dumped[h] = -1
            /\ ReturnedPastReply(h) => result[h] = "False"

\* C3: a grasp cycle whose planner returned one or more candidates, all
\* answered infeasible, has returned failure and never called execution.
Thm_C3 ==
    \A h \in Handlers :
        (IsGrasp(cmd[h]) /\ Len(reply[h]) >= 1 /\ AllInfeasible(h)) =>
            pc[h] = "idle" /\ result[h] = "False" /\ n_exec[h] = 0

Wit_C3 ==
    \E h \in Handlers :
        /\ IsGrasp(cmd[h]) /\ Len(reply[h]) = 3 /\ AllInfeasible(h)
        /\ pc[h] = "idle" /\ result[h] = "False"

\* C4: the candidate handed to execution is a candidate of the reply whose
\* query answered success, no feasible candidate has a higher score, and
\* no feasible candidate of the same score comes before it in the reply.
Thm_C4 ==
    \A h \in Handlers :
        (pc[h] = "execute" \/ n_exec[h] = 1) =>
            LET b == best_candidate[h] IN
            /\ b.pose \in FeasiblePlaces(h)
            /\ reply[h][b.pose] = b
            /\ \A j \in FeasiblePlaces(h) :
                   /\ reply[h][j].score <= b.score
                   /\ reply[h][j].score = b.score => b.pose <= j

\* a dispatch where two feasible candidates tie for the best score and an
\* infeasible one scores higher
Wit_C4 ==
    \E h \in Handlers :
        /\ n_exec[h] = 1
        /\ \E j \in FeasiblePlaces(h) :
               j > best_candidate[h].pose
               /\ reply[h][j].score = best_candidate[h].score
        /\ \E k \in 1..Len(reply[h]) :
               k \notin FeasiblePlaces(h)
               /\ reply[h][k].score > best_candidate[h].score

\* thread h serves a help command
HelpCmd(h) == UserCmdEntry(h, <<"help">>)

\* C5: handling help leaves the abort flag, the snapshot flag and the
\* stored snapshot and frame data as they were.
CE_C5 ==
    [][\A h \in Handlers :
           HelpCmd(h) => UNCHANGED << abort, new_camera_data, snapshot_vars >>]_vars

\* the four commands, written exactly
IsExactCommand(data) ==
    \/ data \in {<<"help">>, <<"grasp">>, <<"abort">>}
    \/ /\ Len(data) >= 3
       /\ data[1] = "get_candidates" /\ data[2] = " "
       /\ AllDigits(SubSeq(data, 3, Len(data)))
       /\ DigitsVal(SubSeq(data, 3, Len(data))) > 0

\* C6: a text that is none of the four commands is answered Bool(False),
\* and the abort and snapshot flags keep their values.
CE_C6 ==
    [][\A h \in Handlers, data \in CmdTexts :
           (UserCmdEntry(h, data) /\ ~IsExactCommand(data)) =>
               /\ result'[h] = "False"
               /\ UNCHANGED << abort, new_camera_data >>]_vars

\* get_candidates with one argument that is no positive integer
MalformedGetCandidates(data) ==
    /\ Len(Split(data)) = 2
    /\ Split(data)[1] = <<"get_candidates">>
    /\ ~(IntParses(Split(data)[2]) /\ IntValue(Split(data)[2]) > 0)

\* the pcs of a cycle that has taken the snapshot flag
PastConsume == {"read", "complete", "compose", "plan", "abort_check"} \cup PastCheck

\* C7: a get_candidates whose argument is no positive integer never takes
\* the snapshot, never calls shape completion or the planner, and what it
\* returns is Bool(False).
CE_C7 ==
    \A h \in Handlers :
        (cmd[h] # << >> /\ MalformedGetCandidates(cmd[h])) =>
            /\ pc[h] \notin PastConsume
            /\ n_completion[h] = 0 /\ n_planner[h] = 0
            /\ pc[h] = "idle" => result[h] = "False"

\* C8: a command in which a call to a collaborator failed has returned
\* Bool(False) and sent no execution request after the failure.
CE_C8 ==
    \A h \in Handlers :
        failed[h] # "none" =>
            /\ pc[h] = "idle" /\ result[h] = "False"
            /\ failed[h] # "execution" => n_exec[h] = 0

\* C9: after a feasibility call that failed, every candidate of the reply
\* is still queried and the grasp command ends with a Bool, not an
\* exception.
CE_C9 ==
    \A h \in Handlers :
        (pc[h] = "idle" /\ \E i \in 1..Len(feas_res[h]) : feas_res[h][i] = "err") =>
            /\ Len(feas_res[h]) = Len(reply[h])
            /\ result[h] \in {"True", "False"}

\* the blocks of a poses file: the rows up to each end of line
RECURSIVE BlocksFrom(_, _)
BlocksFrom(file, cur) ==
    IF file = << >> THEN (IF cur = << >> THEN << >> ELSE << cur >>)
    ELSE IF Head(file).end = "\n"
         THEN << Append(cur, Head(file)) >> \o BlocksFrom(Tail(file), << >>)
         ELSE BlocksFrom(Tail(file), Append(cur, Head(file)))

Blocks(file) == BlocksFrom(file, << >>)

\* block holds the four rows of the matrix of pose p, in order
IsBlockOf(block, p) ==
    /\ Len(block) = 4
    /\ \A r \in 1..4 : block[r].pose = p /\ block[r].row = r - 1

\* the lines of a scores file: every entry ends its line
Lines(file) == { i \in 1..Len(file) : file[i].end = "\n" }

\* C10: the directory a get_candidates cycle dumped to holds one pose block
\* and one score line per candidate of the reply, the i-th of each being
\* the i-th candidate's, and the cycle sent no feasibility query and no
\* execution request.
Thm_C10 ==
    \A h \in Handlers :
        /\ (cmd[h] # << >> /\ ~IsGrasp(cmd[h])) =>
               Len(feas_res[h]) = 0 /\ n_exec[h] = 0
        /\ dumped[h] # -1 =>
               LET d == fs[dumped[h]]
                   k == Len(reply[h])
               IN  /\ pc[h] = "idle" /\ result[h] = "True"
                   /\ d.exists
                   /\ Len(Blocks(d.poses)) = k
                   /\ \A i \in 1..k : IsBlockOf(Blocks(d.poses)[i], reply[h][i].pose)
                   /\ Len(d.scores) = k /\ Lines(d.scores) = 1..k
                   /\ \A i \in 1..k : d.scores[i].score = reply[h][i].score

\* a dump of three candidates whose scores all differ
Wit_C10 ==
    \E h \in Handlers :
        /\ dumped[h] # -1
        /\ Len(reply[h]) = 3
        /\ Cardinality({ reply[h][i].score : i \in 1..3 }) = 3
        /\ Len(Blocks(fs[dumped[h]].poses)) = 3

\* C11: a cycle that arrived when the abort flag was still set by an abort
\* that had already returned, and to which no abort was issued before its
\* abort check, never sees the flag set: not while it runs up to the check,
\* and not at the check.
Thm_C11 ==
    \A h \in Handlers :
        (cmd[h] # << >> /\ IsCycleCmd(cmd[h]) /\ ValidCommand(cmd[h])
         /\ abort_at_entry[h] /\ ~abort_before_check[h]) =>
            /\ pc[h] \in BeforeCheck => ~abort
            /\ abort_at_check[h] # "True"

\* a grasp that arrived with the flag set has passed its abort check and
\* called the execution service
Wit_C11 ==
    \E h \in Handlers :
        /\ IsGrasp(cmd[h]) /\ abort_at_entry[h]
        /\ abort_at_check[h] = "False" /\ n_exec[h] = 1

\* the pcs of a cycle whose cloud has been put together (lines 195-232)
CloudComposed == {"compose", "plan", "abort_check"} \cup PastCheck

\* C12: once the callback has handled an arrival, the stored background is
\* None exactly when the cloud and the background of that arrival are the
\* same message; and the cloud of a request whose background is None holds
\* only completed points of the objects.
Thm_C12 ==
    /\ (cb_pc = "idle" /\ narrivals > 0) =>
           (background_pc_msg = NoMsg <=> cb_arrival.pc = cb_arrival.background_pc)
    /\ \A h \in Handlers :
           (pc[h] \in CloudComposed /\ planner_req[h].background_pc_in = NoMsg) =>
               /\ planner_req[h].cloud # << >>
               /\ \A i \in 1..Len(planner_req[h].cloud) :
                      planner_req[h].cloud[i].part = "completed"

\* the callback has handled an arrival whose two clouds are one message,
\* and the planner is about to get the request made from it
Wit_C12 ==
    \E h \in Handlers :
        /\ cb_pc = "idle" /\ cb_arrival.pc = cb_arrival.background_pc
        /\ pc[h] = "plan" /\ planner_req[h].pc_in = cb_arrival.pc
        /\ planner_req[h].background_pc_in = NoMsg
        /\ Len(planner_req[h].cloud) = 3

\* C13: the os.mkdir of a dump creates a directory that did not exist, its
\* suffix is the smallest one free at that moment, and the dump goes on to
\* write into the directory it created.
CE_C13 ==
    [][\A h \in Handlers :
           (pc[h] = "dump_mkdir" /\ pc'[h] # "dump_mkdir") =>
               LET i == dump_dir_idx[h]
               IN  /\ ~fs[i].exists /\ fs'[i].exists
                   /\ \A j \in 0..(i - 1) : fs[j].exists
                   /\ pc'[h] = "dump_write"]_vars

CE_C15 ==
    \A h \in Handlers :
        LET r == planner_req[h]
        IN  r.pc_in # NoMsg =>
                /\ r.color_image.seq = r.pc_in.seq
                /\ r.depth_image.seq = r.pc_in.seq
                /\ r.camera_info.seq = r.pc_in.seq
                /\ r.view_point.seq = r.pc_in.seq
                /\ r.background_pc_in # NoMsg => r.background_pc_in.seq = r.pc_in.seq
                /\ r.grasp_filter_flag => r.aruco_board.seq = r.pc_in.seq

\* C16: the wait ends within its budget, and when it ends the cycle goes
\* on to take the snapshot if the flag is set and fails if it is not.
CE_C16 ==
    [][\A h \in Handlers :
           /\ count'[h] <= WaitBudget
           /\ (pc[h] = "wait" /\ pc'[h] # "wait") =>
                  /\ new_camera_data => pc'[h] = "consume"
                  /\ ~new_camera_data => (pc'[h] = "idle" /\ result'[h] = "False")]_vars

\* C17: a grasp cycle that got to the filtering has sent, by the time it
\* ends or asks for the execution, one plan-only query for each candidate
\* of the reply, the i-th query for the i-th candidate, and all of them
\* have returned; it asks for the execution once at most.
CE_C17 ==
    \A h \in Handlers :
        (IsGrasp(cmd[h]) /\ abort_at_check[h] = "False") =>
            /\ Len(feas_res[h]) <= Len(reply[h])
            /\ (pc[h] = "idle" \/ pc[h] = "execute" \/ n_exec[h] >= 1) =>
                   Len(feas_res[h]) = Len(reply[h])
            /\ (pc[h] = "execute" \/ n_exec[h] >= 1) =>
                   \A i \in 1..Len(feas_res[h]) : feas_res[h][i] \in {"yes", "no"}
            /\ n_exec[h] <= 1

\* C18: once the callback has handled an arrival and returned: if its
\* lookup of the camera failed, the stored camera pose is the identity
\* (no shift, a unit rotation of no turn: it moves no point); with
\* use_aruco, the filter flag is
\* true exactly when its lookup of the board succeeded; and the messages of
\* the arrival are stored whatever the lookups did.  Without use_aruco the
\* filter flag is false in every state.
Thm_C18 ==
    /\ (cb_pc = "idle" /\ narrivals > 0) =>
           /\ ~cb_arrival.camera_found =>
                  /\ camera_pose.translation = << 0, 0 >>
                  /\ camera_pose.rotation = [unit |-> TRUE, turns |-> 0]
                  /\ \A p \in { << 1, 0 >>, << -2, 1 >> } :
                         Dot(TrMatrix(camera_pose), p) = p
           /\ use_aruco => (enable_grasp_filter <=> cb_arrival.aruco_found)
           /\ pc_msg = cb_arrival.pc /\ rgb_msg.seq = cb_arrival.seq
    /\ ~use_aruco => ~enable_grasp_filter

\* the callback has returned from an arrival for which both lookups failed
Wit_C18 ==
    /\ cb_pc = "idle" /\ narrivals > 0 /\ use_aruco
    /\ ~cb_arrival.camera_found /\ ~cb_arrival.aruco_found
    /\ camera_pose.seq = cb_arrival.seq

\* C19: in the cloud of a request that is ready for the planner, no
\* background point comes before a completed point, and the frame id is
\* that of the root frame.
CE_C19 ==
    \A h \in Handlers :
        (pc[h] = "plan" \/ n_planner[h] >= 1) =>
            LET cloud == planner_req[h].cloud
            IN  /\ \A i, j \in 1..Len(cloud) :
                       (i < j /\ cloud[i].part = "background") =>
                           cloud[j].part = "background"
                /\ planner_req[h].frame_id = "panda_link0"

\* C20: a command calls the execution service once at most; a command that
\* calls it is a grasp whose planner has replied, whose abort check found
\* the flag clear, and whose candidate is one of the reply that a plan-only
\* query of this command answered success; no other command calls it.
Thm_C20 ==
    \A h \in Handlers :
        /\ n_exec[h] <= 1
        /\ (pc[h] = "execute" \/ n_exec[h] = 1) =>
               /\ IsGrasp(cmd[h])
               /\ n_planner[h] = 1 /\ failed[h] # "planner"
               /\ abort_at_check[h] = "False"
               /\ \E i \in 1..Len(reply[h]) :
                      feas_res[h][i] = "yes" /\ reply[h][i] = best_candidate[h]
        /\ ~IsGrasp(cmd[h]) => (pc[h] # "execute" /\ n_exec[h] = 0)

\* a grasp has called the execution service with the second of two
\* candidates, the first having been answered infeasible
Wit_C20 ==
    \E h \in Handlers :
        /\ n_exec[h] = 1 /\ pc[h] = "idle"
        /\ Len(reply[h]) = 2 /\ feas_res[h] = << "no", "yes" >>
        /\ best_candidate[h] = reply[h][2]

\* the command thread h is serving, or has served last, is a cycle that
\* passed the wait of lines 160-166
PassedWait(h) == pc[h] \in {"consume", "read"} \/ planner_req[h].pc_in # NoMsg

\* C21: an arrival lets one cycle at most past the wait: the cycles that
\* have passed it are no more than the arrivals, and while a cycle that
\* has taken the flag runs, no other thread is past the wait unless the
\* callback has set the flag again.
CE_C21 ==
    /\ Cardinality({ h \in Handlers : PassedWait(h) }) <= narrivals
    /\ \A h, g \in Handlers :
           (h # g /\ pc[h] \in PastConsume /\ pc[g] \in {"consume"} \cup PastConsume) =>
               narrivals >= 2

\* C22: a grasp command that has ended returned Bool(True) exactly when it
\* called the execution service and the call returned, with a reply that
\* reports success or one that reports failure; it returned Bool(False)
\* when the call raised.
Thm_C22 ==
    \A h \in Handlers :
        (IsGrasp(cmd[h]) /\ pc[h] = "idle") =>
            /\ result[h] = "True" <=>
                   (n_exec[h] = 1 /\ exec_reply[h] \in {"success", "failure"})
            /\ exec_reply[h] = "error" => (n_exec[h] = 1 /\ result[h] = "False")
            /\ n_exec[h] = 0 <=> exec_reply[h] = "none"

\* a grasp returned Bool(True) on a reply that reports failure
Wit_C22 ==
    \E h \in Handlers :
        /\ IsGrasp(cmd[h]) /\ pc[h] = "idle"
        /\ exec_reply[h] = "failure" /\ result[h] = "True"

\* C23: a cycle that took a snapshot whose camera pose is a valid one, and
\* in which no call to a collaborator failed, has ended with Bool(True) or
\* Bool(False), also when the cloud of the objects has no finite point;
\* and every completed point of the cloud of a request has the colour of
\* the first finite point of the cloud of the objects.
CE_C23 ==
    \A h \in Handlers :
        LET r == planner_req[h]
        IN  /\ (pc[h] = "idle" /\ r.pc_in # NoMsg /\ r.view_point.rotation.unit
                /\ failed[h] = "none" /\ IsGrasp(cmd[h])) =>
                   result[h] \in {"True", "False"}
            /\ pc[h] \in CloudComposed =>
                   \A i \in 1..Len(r.cloud) :
                       r.cloud[i].part = "completed" =>
                           r.cloud[i].rgb = ReadPoints(r.pc_in)[1].rgb

====
